---------------------------- MODULE Spec2Model ----------------------------
(***************************************************************************)
(* Finite-difference pricing of a vanilla option: the implicit scheme of   *)
(* Implicit_FDM.ipynb (vanilla_option_implicit and its helpers) and the    *)
(* explicit scheme VanillaOption_Explicit.  One pricing call is a state    *)
(* machine: discretize, coefficients, operator, grid initialization, the   *)
(* backward loop (one action per iteration), return.                       *)
(*                                                                         *)
(* Numbers are exact rationals <<n, d>> in lowest terms with d > 0; the    *)
(* code's float arithmetic is modelled without rounding.  np.exp is        *)
(* modelled by its (1,1) Pade approximant, which is exact at 0.            *)
(***************************************************************************)
EXTENDS Integers, Sequences, FiniteSets, TLC

(* ------------------------------ bounds --------------------------------- *)
\* largest number of time steps N of a pricing call
MaxN == 2

(* ------------------------- rational arithmetic ------------------------- *)
\* F applied to the value of v, which is computed once
With(v, F(_)) == CHOOSE z \in {F(u) : u \in {v}} : TRUE

Abs(x) == With(x, LAMBDA u : IF u < 0 THEN -u ELSE u)

RECURSIVE GCD(_, _)
GCD(x, y) == IF y = 0 THEN x ELSE With(x % y, LAMBDA m : GCD(y, m))

\* the positive gcd of two integers, 1 when both are 0
Gcd1(x, y) == With(GCD(Abs(x), Abs(y)), LAMBDA g : IF g = 0 THEN 1 ELSE g)

\* the float n/d, for d # 0
Rat(n, d) ==
    With(<<n, d>>, LAMBDA p :
        With(Gcd1(p[1], p[2]), LAMBDA g :
            IF p[2] < 0 THEN <<(-p[1]) \div g, (-p[2]) \div g>>
            ELSE <<p[1] \div g, p[2] \div g>>))

Zero == <<0, 1>>
One == <<1, 1>>
Two == <<2, 1>>
Half == <<1, 2>>
FromInt(k) == <<k, 1>>

RNeg(x) == With(x, LAMBDA u : <<-u[1], u[2]>>)

RAdd(x, y) ==
    With(<<x, y>>, LAMBDA p :
        IF p[1][2] = p[2][2] THEN Rat(p[1][1] + p[2][1], p[1][2])
        ELSE With(Gcd1(p[1][2], p[2][2]), LAMBDA g :
                 Rat(p[1][1] * (p[2][2] \div g) + p[2][1] * (p[1][2] \div g),
                     (p[1][2] \div g) * p[2][2])))

RSub(x, y) == RAdd(x, RNeg(y))

RMul(x, y) ==
    With(<<x, y>>, LAMBDA p :
        IF p[1][1] = 0 \/ p[2][1] = 0 THEN <<0, 1>>
        ELSE With(<<Gcd1(p[1][1], p[2][2]), Gcd1(p[2][1], p[1][2])>>, LAMBDA g :
                 Rat((p[1][1] \div g[1]) * (p[2][1] \div g[2]),
                     (p[1][2] \div g[2]) * (p[2][2] \div g[1]))))

\* x / y, for y # 0
RDiv(x, y) ==
    With(y, LAMBDA u :
        IF u[1] < 0 THEN RMul(x, <<-u[2], -u[1]>>) ELSE RMul(x, <<u[2], u[1]>>))

RLe(x, y) ==
    With(<<x, y>>, LAMBDA p :
        IF p[1][2] = p[2][2] THEN p[1][1] <= p[2][1]
        ELSE With(Gcd1(p[1][2], p[2][2]), LAMBDA g :
                 p[1][1] * (p[2][2] \div g) <= p[2][1] * (p[1][2] \div g)))

RLt(x, y) == ~RLe(y, x)

\* np.maximum on two scalars
RMax(x, y) == With(<<x, y>>, LAMBDA p : IF RLe(p[1], p[2]) THEN p[2] ELSE p[1])

RAbs(x) == With(x, LAMBDA u : <<Abs(u[1]), u[2]>>)

\* the least integer >= x
Ceil(x) == With(x, LAMBDA u : -((-u[1]) \div u[2]))

\* sum of f[lo], ..., f[hi], accumulated left to right from 0.0
RECURSIVE RSum(_, _, _)
RSum(f, lo, hi) == IF hi < lo THEN Zero ELSE RAdd(RSum(f, lo, hi - 1), f[hi])

\* np.exp(y): (2 + y) / (2 - y), for y < 2
Exp(y) == RDiv(RAdd(Two, y), RSub(Two, y))

(* ------------------------------ inputs --------------------------------- *)
Schemes == {"implicit", "explicit"}
S_0Set == {FromInt(1), FromInt(3)}
TSet == {FromInt(1)}
KSet == {FromInt(-1), FromInt(0), FromInt(1), FromInt(2)}
rSet == {FromInt(0), FromInt(1)}
qSet == {FromInt(0), FromInt(1), FromInt(2)}
sigmaSet == {FromInt(1)}
NSet == 0..MaxN
MSet == {0, 2, 4}

VARIABLES scheme, S_0, T, K, r, q, sigma, N, M, isCall, isAmerican,
          pc, err, S_max, dS, dt, a, b, c, A, B, FV, i, results,
          FV0, raw

args == <<scheme, S_0, T, K, r, q, sigma, N, M, isCall, isAmerican>>
vars == <<scheme, S_0, T, K, r, q, sigma, N, M, isCall, isAmerican,
          pc, err, S_max, dS, dt, a, b, c, A, B, FV, i, results, FV0, raw>>

\* a value not yet assigned
Unset == <<>>

Init ==
    /\ scheme \in Schemes
    /\ S_0 \in S_0Set
    /\ T \in TSet
    /\ K \in KSet
    /\ r \in rSet
    /\ q \in qSet
    /\ sigma \in sigmaSet
    /\ N \in NSet
    /\ M \in MSet
    /\ isCall \in BOOLEAN
    /\ isAmerican \in BOOLEAN
    /\ pc = "start"
    /\ err = "none"
    /\ S_max = Unset /\ dS = Unset /\ dt = Unset
    /\ a = Unset /\ b = Unset /\ c = Unset
    /\ A = Unset /\ B = Unset
    /\ FV = Unset /\ FV0 = Unset /\ raw = Unset
    /\ i = N - 1
    /\ results = [k \in 0..1 |-> Zero]

(* ---------------------------- discretization --------------------------- *)
\* results = np.zeros((2,1)); S_max = 2.0*K; dS = S_max/M; dt = T/N.
\* A zero M raises ZeroDivisionError at the first division, a zero N at the
\* second.
Discretize ==
    /\ pc = "start"
    /\ S_max' = RMul(Two, K)
    /\ IF M = 0
       THEN /\ pc' = "error"
            /\ err' = "ZeroDivisionError"
            /\ UNCHANGED <<dS, dt>>
       ELSE IF N = 0
       THEN /\ dS' = RDiv(RSub(S_max', Zero), FromInt(M))
            /\ pc' = "error"
            /\ err' = "ZeroDivisionError"
            /\ UNCHANGED dt
       ELSE /\ dS' = RDiv(RSub(S_max', Zero), FromInt(M))
            /\ dt' = RDiv(T, FromInt(N))
            /\ pc' = "coeff"
            /\ UNCHANGED err
    /\ UNCHANGED <<args, a, b, c, A, B, FV, i, results, FV0, raw>>

(* ----------------------------- coefficients --------------------------- *)
\* j**2 for the float index j
Sq(x) == RMul(x, x)

\* implicit scheme: a, b, c over j = 0..M-1, left unnormalized
compute_transition_probabilities(M_, dt_, r_, q_, sigma_) ==
    [a |-> [j \in 0..(M_ - 1) |->
              RSub(RMul(RMul(RMul(Half, RSub(r_, q_)), FromInt(j)), dt_),
                   RMul(RMul(RMul(Half, Sq(sigma_)), Sq(FromInt(j))), dt_))],
     b |-> [j \in 0..(M_ - 1) |->
              RAdd(RAdd(One, RMul(RMul(Sq(sigma_), Sq(FromInt(j))), dt_)),
                   RMul(r_, dt_))],
     c |-> [j \in 0..(M_ - 1) |->
              RSub(RMul(RMul(RMul(RNeg(Half), RSub(r_, q_)), FromInt(j)), dt_),
                   RMul(RMul(RMul(Half, Sq(sigma_)), Sq(FromInt(j))), dt_))]]

\* explicit scheme: a, b, c over j = 0..M-1, normalized by 1 + r*dt
ExplicitCoefficients(M_, dt_, r_, q_, sigma_) ==
    LET den == RAdd(One, RMul(r_, dt_))
    IN
    [a |-> [j \in 0..(M_ - 1) |->
              RDiv(RAdd(RMul(RMul(RMul(RNeg(Half), RSub(r_, q_)), dt_), FromInt(j)),
                        RMul(RMul(RMul(Half, Sq(sigma_)), dt_), Sq(FromInt(j)))),
                   den)],
     b |-> [j \in 0..(M_ - 1) |->
              RDiv(RSub(One, RMul(RMul(Sq(sigma_), dt_), Sq(FromInt(j)))), den)],
     c |-> [j \in 0..(M_ - 1) |->
              RDiv(RAdd(RMul(RMul(RMul(Half, RSub(r_, q_)), dt_), FromInt(j)),
                        RMul(RMul(RMul(Half, Sq(sigma_)), dt_), Sq(FromInt(j)))),
                   den)]]

ComputeCoefficients ==
    /\ pc = "coeff"
    /\ LET co == IF scheme = "implicit"
                 THEN compute_transition_probabilities(M, dt, r, q, sigma)
                 ELSE ExplicitCoefficients(M, dt, r, q, sigma)
       IN  /\ a' = co.a
           /\ b' = co.b
           /\ c' = co.c
    /\ pc' = "operator"
    /\ UNCHANGED <<args, err, S_max, dS, dt, A, B, FV, i, results, FV0, raw>>

(* ------------------------------- operator ------------------------------ *)
\* np.diag(b) + np.diag(a[1:], k=-1) + np.diag(c[:-1], k=1)
Tridiagonal(a_, b_, c_, n) ==
    [x \in 0..(n - 1) |-> [y \in 0..(n - 1) |->
        IF y = x THEN b_[x]
        ELSE IF y = x - 1 THEN a_[x]
        ELSE IF y = x + 1 THEN c_[x]
        ELSE Zero]]

\* the n x n matrix X without row dr and column dc
Minor(X, n, dr, dc) ==
    [x \in 0..(n - 2) |-> [y \in 0..(n - 2) |->
        X[IF x < dr THEN x ELSE x + 1][IF y < dc THEN y ELSE y + 1]]]

Sign(k) == IF k % 2 = 0 THEN One ELSE RNeg(One)

\* determinant of the n x n matrix X, expanded along row 0
RECURSIVE Det(_, _)
Det(X, n) ==
    IF n = 0 THEN One
    ELSE RSum([j \in 0..(n - 1) |->
                 IF X[0][j] = Zero THEN Zero
                 ELSE RMul(RMul(Sign(j), X[0][j]), Det(Minor(X, n, 0, j), n - 1))],
              0, n - 1)

\* la.inv(X) for a nonsingular n x n matrix X
Inverse(X, n) ==
    LET d == Det(X, n)
    IN  [x \in 0..(n - 1) |-> [y \in 0..(n - 1) |->
            RDiv(RMul(Sign(x + y), Det(Minor(X, n, y, x), n - 1)), d)]]

\* la.norm(X, np.inf): the largest absolute row sum
InfNorm(X, n) ==
    LET rowsum(x) == RSum([y \in 0..(n - 1) |-> RAbs(X[x][y])], 0, n - 1)
    IN  CHOOSE m \in {rowsum(x) : x \in 0..(n - 1)} :
            \A x \in 0..(n - 1) : RLe(rowsum(x), m)

\* implicit: A, B = la.inv(A), results[1] = norm(B); a singular A raises
\* LinAlgError.  explicit: A, outVector[1] = norm(A).
BuildOperator ==
    /\ pc = "operator"
    /\ A' = Tridiagonal(a, b, c, M)
    /\ IF scheme = "implicit"
       THEN IF Det(A', M) = Zero
            THEN /\ pc' = "error"
                 /\ err' = "LinAlgError"
                 /\ UNCHANGED <<B, results>>
            ELSE /\ B' = Inverse(A', M)
                 /\ results' = [results EXCEPT ![1] = InfNorm(B', M)]
                 /\ pc' = "init"
                 /\ UNCHANGED err
       ELSE /\ results' = [results EXCEPT ![1] = InfNorm(A', M)]
            /\ pc' = "init"
            /\ UNCHANGED <<B, err>>
    /\ UNCHANGED <<args, S_max, dS, dt, a, b, c, FV, i, FV0, raw>>

(* -------------------------- grid initialization ------------------------ *)
\* number of elements of np.arange(start, stop, step), for step # 0
ArangeLen(start, stop, step) ==
    LET n == Ceil(RDiv(RSub(stop, start), step))
    IN  IF n < 0 THEN 0 ELSE n

\* np.arange(start, stop, step): element k is start + k*step
Arange(start, stop, step) ==
    [k \in 0..(ArangeLen(start, stop, step) - 1) |->
        RAdd(start, RMul(FromInt(k), step))]

\* the stop value of the price axis: S_max + dS (implicit), S_max + dS/2 (explicit)
AxisStop(scheme_, S_max_, dS_) ==
    IF scheme_ = "implicit" THEN RAdd(S_max_, dS_)
    ELSE RAdd(S_max_, RDiv(dS_, Two))

\* the price axis np.arange(0, stop, dS)
PriceAxis(scheme_, S_max_, dS_) == Arange(Zero, AxisStop(scheme_, S_max_, dS_), dS_)

\* Discount with the row index in place of the rows left to maturity
Discount_FromStart(r_, N_, row, dt_) == Exp(RMul(RMul(RNeg(r_), FromInt(row)), dt_))

\* np.exp(-r * (N - row) * dt)
Discount(r_, N_, row, dt_) == Exp(RMul(RMul(RNeg(r_), FromInt(N_ - row)), dt_))

\* Payoff without the floor at 0
Payoff_Unfloored(is_call, S, K_) == IF is_call THEN RSub(S, K_) ELSE RSub(K_, S)

\* np.maximum(S - K, 0) for a call, np.maximum(K - S, 0) for a put
Payoff(is_call, S, K_) ==
    IF is_call THEN RMax(RSub(S, K_), Zero) ELSE RMax(RSub(K_, S), Zero)

\* FV = zeros((N+1, M+1)) with column 0 and column M assigned
BoundaryColumns(N_, M_, S_max_, K_, r_, dt_, is_call) ==
    [row \in 0..N_ |-> [col \in 0..M_ |->
        IF col = M_
        THEN IF is_call THEN RMul(S_max_, Discount(r_, N_, row, dt_)) ELSE Zero
        ELSE IF col = 0
             THEN IF is_call THEN Zero ELSE RMul(K_, Discount(r_, N_, row, dt_))
        ELSE Zero]]

\* the boundary columns, then FV[N, :] = the payoff at every price of the axis
initialize_option_matrix(N_, M_, S_max_, K_, r_, dt_, is_call, prices) ==
    [BoundaryColumns(N_, M_, S_max_, K_, r_, dt_, is_call)
        EXCEPT ![N_] = [col \in 0..M_ |-> Payoff(is_call, prices[col], K_)]]

\* np.arange raises for a zero step (ZeroDivisionError or ValueError, by the
\* numpy version); the assignment FV[N, :] = ... raises ValueError when the
\* axis does not have M + 1 elements.  Both happen after the boundary columns
\* are assigned.
InitializeGrid ==
    /\ pc = "init"
    /\ IF dS = Zero
       THEN /\ pc' = "error"
            /\ err' \in {"ZeroDivisionError", "ValueError"}
            /\ FV' = BoundaryColumns(N, M, S_max, K, r, dt, isCall)
            /\ UNCHANGED FV0
       ELSE IF ArangeLen(Zero, AxisStop(scheme, S_max, dS), dS) # M + 1
       THEN /\ pc' = "error"
            /\ err' = "ValueError"
            /\ FV' = BoundaryColumns(N, M, S_max, K, r, dt, isCall)
            /\ UNCHANGED FV0
       ELSE /\ FV' = initialize_option_matrix(N, M, S_max, K, r, dt, isCall,
                                              PriceAxis(scheme, S_max, dS))
            /\ FV0' = FV'
            /\ pc' = "loop"
            /\ UNCHANGED err
    /\ UNCHANGED <<args, S_max, dS, dt, a, b, c, A, B, i, results, raw>>

(* --------------------------- backward iteration ------------------------ *)
\* np.dot(v, X) for a row vector v of length n: element j is sum_k v[k]*X[k][j]
Dot(v, X, n) ==
    [j \in 0..(n - 1) |-> RSum([k \in 0..(n - 1) |-> RMul(v[k], X[k][j])], 0, n - 1)]

\* k_i = zeros(M); k_i[0] = sgn*a[0]*FV[i+1,0]; k_i[M-1] = sgn*c[M-1]*FV[i+1,M]
Correction(sgn, a_, c_, next, M_) ==
    [[j \in 0..(M_ - 1) |-> Zero]
        EXCEPT ![0] = RMul(RMul(sgn, a_[0]), next[0]),
               ![M_ - 1] = RMul(RMul(sgn, c_[M_ - 1]), next[M_])]

\* implicit: FV[i, :M] = np.dot(FV[i+1, :M] + k_i, B)
ImplicitRow(next, B_, a_, c_, M_) ==
    LET k_i == Correction(RNeg(One), a_, c_, next, M_)
    IN  Dot([j \in 0..(M_ - 1) |-> RAdd(next[j], k_i[j])], B_, M_)

\* explicit: FV[i, 0:M] = np.dot(FV[i+1, 0:M], A) + k_i.transpose()
ExplicitRow(next, A_, a_, c_, M_) ==
    LET k_i == Correction(One, a_, c_, next, M_)
        d == Dot([j \in 0..(M_ - 1) |-> next[j]], A_, M_)
    IN  [j \in 0..(M_ - 1) |-> RAdd(d[j], k_i[j])]

\* the exercise value the American branch compares with: S - K or K - S
Exercise(is_call, S, K_) == IF is_call THEN RSub(S, K_) ELSE RSub(K_, S)

\* the price levels of the American branch: np.arange(0, M+1)*dS (implicit),
\* np.arange(S_min, S_max + dS/2, dS) (explicit)
ExerciseAxis(scheme_, M_, S_max_, dS_) ==
    IF scheme_ = "implicit" THEN [j \in 0..M_ |-> RMul(FromInt(j), dS_)]
    ELSE PriceAxis(scheme_, S_max_, dS_)

\* AmericanRow with np.minimum in place of np.maximum
AmericanRow_Minimum(row, axis, is_call, K_, M_) ==
    [j \in 0..M_ |->
        LET e == IF is_call THEN RSub(axis[j], K_) ELSE RSub(K_, axis[j])
        IN  IF RLe(e, row[j]) THEN e ELSE row[j]]

\* FV[i, :] = np.maximum(exercise values, FV[i, :])
AmericanRow(row, axis, is_call, K_, M_) ==
    [j \in 0..M_ |-> RMax(Exercise(is_call, axis[j], K_), row[j])]

\* row i after the operator write: columns 0..M-1 are written, column M is kept
SteppedRow(scheme_, old, next, A_, B_, a_, c_, M_) ==
    LET w == IF scheme_ = "implicit" THEN ImplicitRow(next, B_, a_, c_, M_)
             ELSE ExplicitRow(next, A_, a_, c_, M_)
    IN  [j \in 0..M_ |-> IF j < M_ THEN w[j] ELSE old[M_]]

\* row i at the end of iteration i
NewRow(scheme_, old, next, A_, B_, a_, c_, M_, S_max_, dS_, K_, is_call, is_american) ==
    LET w == SteppedRow(scheme_, old, next, A_, B_, a_, c_, M_)
    IN  IF is_american
        THEN AmericanRow(w, ExerciseAxis(scheme_, M_, S_max_, dS_), is_call, K_, M_)
        ELSE w

\* WriteRow assigning the row below the one asked for
WriteRow_Below(FV_, i_, row) == [FV_ EXCEPT ![i_ + 1] = row]

\* the assignment FV[i, ...] = ...
WriteRow(FV_, i_, row) == [FV_ EXCEPT ![i_] = row]

\* the column the explicit scheme reads: (FV.shape[1]+1)/2 in Python 2
ExplicitColumn(M_) == ((M_ + 1) + 1) \div 2

\* the column the implicit scheme reads: M // 2
ImplicitColumn(M_) == M_ \div 2

\* one iteration of "for i in range(N-1, -1, -1)"; the explicit scheme also
\* assigns outVector[0] inside the loop
BackwardStep ==
    /\ pc = "loop"
    /\ i >= 0
    /\ raw' = SteppedRow(scheme, FV[i], FV[i + 1], A, B, a, c, M)
    /\ FV' = WriteRow(FV, i, NewRow(scheme, FV[i], FV[i + 1], A, B, a, c, M,
                                    S_max, dS, K, isCall, isAmerican))
    /\ results' = IF scheme = "explicit"
                  THEN [results EXCEPT ![0] = FV'[0][ExplicitColumn(M)]]
                  ELSE results
    /\ i' = i - 1
    /\ pc' = IF i = 0 THEN "ret" ELSE "loop"
    /\ UNCHANGED <<args, err, S_max, dS, dt, a, b, c, A, B, FV0>>

\* implicit: results[0] = FV[0, M // 2]; return results.  explicit: return outVector
Return ==
    /\ pc = "ret"
    /\ results' = IF scheme = "implicit"
                  THEN [results EXCEPT ![0] = FV[0][ImplicitColumn(M)]]
                  ELSE results
    /\ pc' = "done"
    /\ UNCHANGED <<args, err, S_max, dS, dt, a, b, c, A, B, FV, i, FV0, raw>>

Next ==
    \/ Discretize
    \/ ComputeCoefficients
    \/ BuildOperator
    \/ InitializeGrid
    \/ BackwardStep
    \/ Return

Spec == Init /\ [][Next]_vars

\* the interpreter runs a started call to its end
FairSpec == Init /\ [][Next]_vars /\ WF_vars(Next)

TypeOK ==
    /\ pc \in {"start", "coeff", "operator", "init", "loop", "ret", "done", "error"}
    /\ err \in {"none", "ZeroDivisionError", "LinAlgError", "ValueError"}
    /\ i \in -1..(N - 1)

(* ------------------------- the loop as a function ---------------------- *)
\* backward_iteration from row k down to row 0 on the grid FV_
RECURSIVE backward_iteration(_, _, _)
backward_iteration(FV_, k, is_american) ==
    IF k < 0 THEN FV_
    ELSE backward_iteration(
             WriteRow(FV_, k, NewRow(scheme, FV_[k], FV_[k + 1], A, B, a, c, M,
                                     S_max, dS, K, isCall, is_american)),
             k - 1, is_american)

(* ------------------------------- properties ---------------------------- *)
\* the inputs the interface calls valid: K > 0, N > 0, M > 0 and even
ValidInput == RLt(Zero, K) /\ N > 0 /\ M > 0 /\ M % 2 = 0

\* the price level of column j
Level(j) == RMul(FromInt(j), dS)

\* intrinsic(j): max(j*dS - K, 0) for a call, max(K - j*dS, 0) for a put
Intrinsic(j) ==
    IF isCall THEN RMax(RSub(Level(j), K), Zero) ELSE RMax(RSub(K, Level(j)), Zero)

\* the grid has just been initialized and no backward step has run
AfterInit == pc = "loop" /\ i = N - 1

\* the discounted value base * exp(-r*(N - row)*dt)
Discounted(base, row) ==
    RMul(base, Exp(RNeg(RMul(RMul(r, FromInt(N - row)), dt))))

\* the column whose row-0 entry the call returns
ExtractColumn == IF scheme = "implicit" THEN ImplicitColumn(M) ELSE ExplicitColumn(M)

\* the fair value of the European call with the same scheme and parameters
EuropeanValue == backward_iteration(FV0, N - 1, FALSE)[0][ExtractColumn]

\* every entry of the step operator and both boundary-correction
\* coefficients are >= 0
MonotoneStep ==
    IF scheme = "implicit"
    THEN /\ \A x \in 0..(M - 1) : \A y \in 0..(M - 1) : RLe(Zero, B[x][y])
         /\ RLe(Zero, RNeg(a[0]))
         /\ RLe(Zero, RNeg(c[M - 1]))
    ELSE /\ \A x \in 0..(M - 1) : \A y \in 0..(M - 1) : RLe(Zero, A[x][y])
         /\ RLe(Zero, a[0])
         /\ RLe(Zero, c[M - 1])

\* C1: after the loop, columns 0 and M of every row hold the values written
\* at initialization (European) or their maximum with intrinsic(j) (American).
C1_BoundaryInvariance ==
    (pc = "done" /\ ValidInput) =>
        \A row \in 0..N : \A j \in {0, M} :
            FV[row][j] = IF isAmerican THEN RMax(FV0[row][j], Intrinsic(j))
                         ELSE FV0[row][j]

\* C2: after the loop of an American contract every entry of the grid is at
\* least intrinsic(j), hence at least 0.
C2_AmericanFloor ==
    (pc = "done" /\ ValidInput /\ isAmerican) =>
        \A row \in 0..N : \A j \in 0..M :
            RLe(Intrinsic(j), FV[row][j]) /\ RLe(Zero, FV[row][j])

\* C3: for even M both schemes return FV[0, M/2] of the completed grid.
C3_MidColumn ==
    (pc = "done" /\ ValidInput) => results[0] = FV[0][M \div 2]

\* C4: a call with N <= 0, M <= 0 or K <= 0 ends in an InvalidParameter error
\* before any grid, coefficient vector, operator or value grid exists, and
\* never returns a result.
C4_Validation ==
    (N <= 0 \/ M <= 0 \/ RLe(K, Zero)) =>
        /\ pc # "done"
        /\ pc = "error" => err = "InvalidParameter"
        /\ dS = Unset /\ dt = Unset
        /\ a = Unset /\ b = Unset /\ c = Unset
        /\ A = Unset /\ B = Unset
        /\ FV = Unset

\* C5: right after initialization row N is the discretized payoff in every
\* column; for valid inputs every entry of row N is >= 0, FV[N,0] = 0 for a
\* call and FV[N,M] = 0 for a put.
C5_TerminalPayoff ==
    AfterInit =>
        /\ \A j \in 0..M :
               FV[N][j] = IF isCall THEN RMax(RSub(Level(j), K), Zero)
                          ELSE RMax(RSub(K, Level(j)), Zero)
        /\ ValidInput =>
               /\ \A j \in 0..M : RLe(Zero, FV[N][j])
               /\ isCall => FV[N][0] = Zero
               /\ ~isCall => FV[N][M] = Zero

C5_Witness ==
    /\ AfterInit /\ ValidInput /\ isCall /\ M = 4
    /\ FV[N][1] = Zero
    /\ FV[N][3] = Level(1)

\* C6 as stated: after initialization, in every row 0..N, maturity row
\* included, a call has FV[i,0] = 0 and FV[i,M] = S_max*exp(-r*(N-i)*dt), a put
\* has FV[i,0] = K*exp(-r*(N-i)*dt) and FV[i,M] = 0.
C6_BoundaryAllRows ==
    (AfterInit /\ ValidInput) =>
        \A row \in 0..N :
            IF isCall
            THEN FV[row][0] = Zero /\ FV[row][M] = Discounted(S_max, row)
            ELSE FV[row][0] = Discounted(K, row) /\ FV[row][M] = Zero

\* C6 amended: the boundary values hold in the rows 0..N-1; in the maturity
\* row the terminal payoff is assigned last, so a put still has FV[N,0] = K and
\* FV[N,M] = 0, while a call has FV[N,0] = 0 and FV[N,M] = S_max - K.
C6_BoundaryBelowMaturity ==
    (AfterInit /\ ValidInput) =>
        /\ \A row \in 0..(N - 1) :
               IF isCall
               THEN FV[row][0] = Zero /\ FV[row][M] = Discounted(S_max, row)
               ELSE FV[row][0] = Discounted(K, row) /\ FV[row][M] = Zero
        /\ IF isCall
           THEN FV[N][0] = Zero /\ FV[N][M] = RSub(S_max, K)
           ELSE FV[N][0] = K /\ FV[N][M] = Zero

C6_Witness ==
    /\ AfterInit /\ ValidInput /\ isCall /\ N = 2 /\ r # Zero
    /\ RLt(FV[0][M], FV[1][M])
    /\ RLt(FV[1][M], S_max)
    /\ FV[N][M] = K

\* C7 as stated: the American fair value is >= the European fair value of
\* the same scheme and parameters.
C7_Monotonicity ==
    (pc = "done" /\ ValidInput /\ isAmerican) => RLe(EuropeanValue, results[0])

\* C7 amended: the American fair value is >= the European one whenever every
\* entry of the step operator and both boundary-correction coefficients
\* are >= 0.
C7_MonotoneOperator ==
    (pc = "done" /\ isAmerican /\ MonotoneStep) => RLe(EuropeanValue, results[0])

C7_Witness ==
    /\ pc = "done" /\ ValidInput /\ isAmerican /\ MonotoneStep /\ M = 4
    /\ RLt(EuropeanValue, results[0])

\* C8: for valid inputs the returned fair value lies in [0, S_max], and no
\* entry of a European grid is negative.
C8_ValueBounds ==
    (pc = "done" /\ ValidInput) =>
        /\ RLe(Zero, results[0])
        /\ RLe(results[0], S_max)
        /\ ~isAmerican => \A row \in 0..N : \A j \in 0..M : RLe(Zero, FV[row][j])

\* the correction vector of the claim for the step that wrote row w
ClaimedCorrection(w) ==
    LET sgn == IF scheme = "implicit" THEN RNeg(One) ELSE One
    IN  [j \in 0..(M - 1) |->
            IF j = 0 THEN RMul(sgn, RMul(a[0], FV[w + 1][0]))
            ELSE IF j = M - 1 THEN RMul(sgn, RMul(c[M - 1], FV[w + 1][M]))
            ELSE Zero]

\* C9: before any American floor, the row written by a step is the step
\* operator applied as a matrix to the previous row as a column vector:
\* explicit sum_k A[j,k]*FV[i+1,k] + k_i[j], implicit sum_k B[j,k]*(FV[i+1,k] + k_i[k]).
C9_StepFormula ==
    (pc \in {"loop", "ret", "done"} /\ raw # Unset /\ ValidInput) =>
        LET w == i + 1
            k_i == ClaimedCorrection(w)
        IN  \A j \in 0..(M - 1) :
                raw[j] = IF scheme = "implicit"
                         THEN RSum([k \in 0..(M - 1) |->
                                      RMul(B[j][k], RAdd(FV[w + 1][k], k_i[k]))],
                                   0, M - 1)
                         ELSE RAdd(RSum([k \in 0..(M - 1) |->
                                           RMul(A[j][k], FV[w + 1][k])], 0, M - 1),
                                   k_i[j])

\* the rows above the loop index are final, the rows up to it untouched
LoopProgress ==
    pc \in {"loop", "ret", "done"} =>
        /\ i \in -1..(N - 1)
        /\ pc \in {"ret", "done"} <=> i = -1
        /\ FV[N] = FV0[N]
        /\ \A k \in 0..i : FV[k] = FV0[k]
        /\ \A k \in (i + 1)..(N - 1) :
               FV[k] = NewRow(scheme, FV0[k], FV[k + 1], A, B, a, c, M,
                              S_max, dS, K, isCall, isAmerican)

\* a step of the loop moves the index down by one, writes row i only and
\* leaves the coefficients and the operator alone
StepFrame ==
    pc = "loop" =>
        /\ i' = i - 1
        /\ \A k \in 0..N : k # i => FV'[k] = FV[k]
        /\ <<a', b', c', A', B'>> = <<a, b, c, A, B>>

\* C10: the loop takes the rows N-1, N-2, ..., 0 in this order, each step
\* writes row i from row i+1 and changes no other row nor the operator, and
\* the loop ends with row 0 written.
C10_BackwardOrder ==
    /\ []LoopProgress
    /\ [][StepFrame]_vars
    /\ (pc = "loop") ~> (pc = "done")

C10_Witness ==
    /\ pc = "done" /\ ValidInput /\ N = 2 /\ M = 4
    /\ FV[0] # FV0[0] /\ FV[1] # FV0[1] /\ FV[0] # FV[1]

=============================================================================
